---- MODULE Spec2Model ----
(***************************************************************************)
(* Model of parler/templatetags/parler_tags.py: the objectlanguage block   *)
(* tag (ObjectLanguageNode.render) and the get_translated_url tag.         *)
(*                                                                         *)
(* Every call of a tag is a frame on the calling execution unit's stack.   *)
(* A frame walks through the positions of the Python code:                 *)
(*   "body"  inside `with switch_language(..)`, nested content rendering   *)
(*   "call"  inside a `with`, get_view_url/get_absolute_url/reverse pending*)
(*   "exit"  the nested computation finished, the `with` is about to exit  *)
(*   "ret"   the tag has produced its result (a value or an exception)     *)
(***************************************************************************)
EXTENDS Integers, Sequences, FiniteSets, TLC

VARIABLES stack, objlang, active, ctx

vars == <<stack, objlang, active, ctx>>

----------------------------------------------------------------------------
(* Bounds and the finite universe the inputs are drawn from *)

MaxDepth == 2

None == "None"

Threads == {"t1", "t2"}

Langs == {"en", "fr", "de"}

Objs == {"post", "tag", "page", "misc"}

\* isinstance(object, TranslatableModel)
TranslatableModel == {"post", "tag"}

\* hasattr(object, 'get_absolute_url')
HasAbsoluteUrl == {"post", "page"}

\* languages in which a translatable object has content (no fallback)
Translated == [o \in TranslatableModel |-> IF o = "post" THEN {"en", "fr"} ELSE Langs]

\* view kinds found in context['view']
Views == {"urlview", "detail"}

\* getattr(view, 'get_view_url', None) is truthy
HasGetViewUrl == {"urlview"}

Paths == {"/article/5/", "/tag/x/", "/nowhere/"}

Exceptions == {"TemplateSyntaxError", "TranslationDoesNotExist", "Error",
               "Resolver404", "NoReverseMatch"}

OrNone(S) == S \cup {None}

\* the render context: context['view'], the object bound to the view handling
\* the request (view.object), context['object'] and context['request'].path
Contexts == [view : OrNone(Views), viewobj : OrNone(Objs),
             object : OrNone(Objs), path : Paths]

----------------------------------------------------------------------------
(* Results: a value (a tuple of strings) or a raised exception *)

NoResult == [status |-> "none", val |-> <<>>, exc |-> None]

Ok(v) == [status |-> "ok", val |-> v, exc |-> None]

Raised(e) == [status |-> "raised", val |-> <<>>, exc |-> e]

\* the empty string ''
EmptyString == <<>>

\* view.get_view_url() computed while `lang` is the active language
ViewUrl(lang) == <<"view", lang>>

\* object.get_absolute_url(): depends on the object's own language (None
\* for a non-translatable object) and on the active language of the unit
AbsUrl(o, olang, alang) == <<"abs", o, olang, alang>>

\* django resolve(path): the route match, or None when nothing matches
Resolve(path) ==
  CASE path = "/article/5/" -> [view_name |-> "article-detail", args |-> "5", kwargs |-> ""]
    [] path = "/tag/x/" -> [view_name |-> "tag-detail", args |-> "", kwargs |-> "slug=x"]
    [] OTHER -> [view_name |-> None, args |-> "", kwargs |-> ""]

\* django reverse(view_name, args, kwargs) while `lang` is the active language
Reverse(view_name, args, kwargs, lang) == <<"rev", view_name, args, kwargs, lang>>

----------------------------------------------------------------------------
(* Frames *)

Frame(op, lang, arg, obj, tier, pc, old, out, res) ==
  [op |-> op, lang |-> lang, arg |-> arg, obj |-> obj, tier |-> tier,
   pc |-> pc, old |-> old, out |-> out, res |-> res]

Top(t) == stack[t][Len(stack[t])]

Push(t, f) == [stack EXCEPT ![t] = Append(@, f)]

SetTop(t, f) == [stack EXCEPT ![t] = [@ EXCEPT ![Len(@)] = f]]

----------------------------------------------------------------------------
(* parler.utils.context: the two scoped switches *)

\* switch_language(object, language).__enter__
SwitchEnter(o, lang) == [objlang EXCEPT ![o] = lang]

\* switch_language.__exit__: restore the language saved on entry
SwitchExit(o, old) == [objlang EXCEPT ![o] = old]

\* smart_override(language).__enter__
OverrideEnter(t, lang) == [active EXCEPT ![t] = lang]

\* smart_override.__exit__
OverrideExit(t, old) == [active EXCEPT ![t] = old]

----------------------------------------------------------------------------
(* ObjectLanguageNode.render *)

\* variant: the isinstance check is missing, the body is rendered for any object
RenderStartNoTypeCheck(t, object, language) ==
  LET new_language == IF language = None THEN active[t] ELSE language IN
  /\ stack' = Push(t, Frame("render", new_language, object, object, 0, "body",
                            IF object \in TranslatableModel THEN objlang[object] ELSE None,
                            NoResult, NoResult))
  /\ objlang' = IF object \in TranslatableModel
                THEN SwitchEnter(object, new_language) ELSE objlang
  /\ UNCHANGED <<active, ctx>>

\* variant: the scope is entered only when no other unit holds a scope on
\* the object (a per-object lock)
RenderStartLocked(t, object, language) ==
  LET new_language == IF language = None THEN active[t] ELSE language IN
  IF object \notin TranslatableModel
  THEN /\ stack' = Push(t, Frame("render", new_language, object, object, 0, "ret",
                                 None, NoResult, Raised("TemplateSyntaxError")))
       /\ UNCHANGED <<objlang, active, ctx>>
  ELSE /\ \A u \in Threads \ {t} : \A i \in 1..Len(stack[u]) :
            ~(/\ stack[u][i].obj = object
              /\ stack[u][i].tier \in {0, 2}
              /\ stack[u][i].pc \in {"body", "call", "exit"})
       /\ stack' = Push(t, Frame("render", new_language, object, object, 0, "body",
                                 objlang[object], NoResult, NoResult))
       /\ objlang' = SwitchEnter(object, new_language)
       /\ UNCHANGED <<active, ctx>>

\* lines 18-23: resolve the arguments, check the type, enter the scope.
\* language = None stands for a tag without a language argument.
RenderStart(t, object, language) ==
  LET new_language == IF language = None THEN active[t] ELSE language IN
  IF object \notin TranslatableModel
  THEN /\ stack' = Push(t, Frame("render", new_language, object, object, 0, "ret",
                                 None, NoResult, Raised("TemplateSyntaxError")))
       /\ UNCHANGED <<objlang, active, ctx>>
  ELSE /\ stack' = Push(t, Frame("render", new_language, object, object, 0, "body",
                                 objlang[object], NoResult, NoResult))
       /\ objlang' = SwitchEnter(object, new_language)
       /\ UNCHANGED <<active, ctx>>

\* line 25: self.nodelist.render(context) finishes; the nested content
\* renders the object in the language the object has at that moment, or
\* raises `fail`
RenderBody(t, fail) ==
  /\ stack[t] # <<>>
  /\ Top(t).op = "render" /\ Top(t).pc = "body"
  /\ LET f == Top(t)
         out == IF fail = None THEN Ok(<<objlang[f.obj]>>) ELSE Raised(fail)
     IN stack' = SetTop(t, [f EXCEPT !.pc = "exit", !.out = out])
  /\ UNCHANGED <<objlang, active, ctx>>

\* variant: set/restore without try-finally, an exception skips the restore
RenderExitNoFinally(t) ==
  /\ stack[t] # <<>>
  /\ Top(t).op = "render" /\ Top(t).pc = "exit"
  /\ LET f == Top(t) IN
       /\ objlang' = IF f.out.status = "ok" THEN SwitchExit(f.obj, f.old) ELSE objlang
       /\ stack' = SetTop(t, [f EXCEPT !.pc = "ret", !.res = f.out])
  /\ UNCHANGED <<active, ctx>>

\* variant: on exit the object is set to the unit's active language
\* instead of the language saved on entry
RenderExitResetToActive(t) ==
  /\ stack[t] # <<>>
  /\ Top(t).op = "render" /\ Top(t).pc = "exit"
  /\ LET f == Top(t) IN
       /\ objlang' = SwitchExit(f.obj, active[t])
       /\ stack' = SetTop(t, [f EXCEPT !.pc = "ret", !.res = f.out])
  /\ UNCHANGED <<active, ctx>>

\* lines 23-27: the with block exits (normally or by the exception), then
\* the output is returned or the exception propagates
RenderExit(t) ==
  /\ stack[t] # <<>>
  /\ Top(t).op = "render" /\ Top(t).pc = "exit"
  /\ LET f == Top(t) IN
       /\ objlang' = SwitchExit(f.obj, f.old)
       /\ stack' = SetTop(t, [f EXCEPT !.pc = "ret", !.res = f.out])
  /\ UNCHANGED <<active, ctx>>

----------------------------------------------------------------------------
(* get_translated_url *)

\* variant: context['object'] is preferred to the explicit argument
SubjectContextFirst(object, c) ==
  LET o1 == IF c.object = None THEN object ELSE c.object IN
  IF c.view # None /\ o1 = None THEN c.viewobj ELSE o1

\* lines 89-91 and 105-106: the subject object when the view has no get_view_url
Subject(object, c) ==
  LET o1 == IF object = None THEN c.object ELSE object IN
  IF c.view # None /\ o1 = None THEN c.viewobj ELSE o1

\* variant: the object branches are tried before the view's get_view_url
TierObjectFirst(object, c) ==
  LET o == Subject(object, c) IN
  IF o # None /\ o \in HasAbsoluteUrl
  THEN IF o \in TranslatableModel THEN 2 ELSE 3
  ELSE IF c.view # None /\ c.view \in HasGetViewUrl THEN 1
  ELSE 4

\* lines 94-123: which branch computes the URL
Tier(object, c) ==
  LET o == Subject(object, c) IN
  IF c.view # None /\ c.view \in HasGetViewUrl THEN 1
  ELSE IF o # None /\ o \in HasAbsoluteUrl
       THEN IF o \in TranslatableModel THEN 2 ELSE 3
       ELSE 4

\* variant: the route fallback reverses without overriding the active language
UrlStartNoOverride(t, lang_code, object) ==
  LET c == ctx[t]
      tier == Tier(object, c)
      o == IF tier = 1 THEN None ELSE Subject(object, c)
  IN
  CASE tier = 2 ->
         /\ stack' = Push(t, Frame("url", lang_code, object, o, 2, "call",
                                   objlang[o], NoResult, NoResult))
         /\ objlang' = SwitchEnter(o, lang_code)
         /\ UNCHANGED <<active, ctx>>
    [] tier \in {1, 3} ->
         /\ stack' = Push(t, Frame("url", lang_code, object, o, tier, "call",
                                   active[t], NoResult, NoResult))
         /\ active' = OverrideEnter(t, lang_code)
         /\ UNCHANGED <<objlang, ctx>>
    [] OTHER ->
         IF Resolve(c.path).view_name = None
         THEN /\ stack' = Push(t, Frame("url", lang_code, object, o, 4, "ret",
                                        None, NoResult, Raised("Resolver404")))
              /\ UNCHANGED <<objlang, active, ctx>>
         ELSE /\ stack' = Push(t, Frame("url", lang_code, object, o, 4, "call",
                                        active[t], NoResult, NoResult))
              /\ UNCHANGED <<objlang, active, ctx>>

\* lines 89-133: up to and including the __enter__ of the with block chosen
UrlStart(t, lang_code, object) ==
  LET c == ctx[t]
      tier == Tier(object, c)
      o == IF tier = 1 THEN None ELSE Subject(object, c)
  IN
  CASE tier = 2 ->
         /\ stack' = Push(t, Frame("url", lang_code, object, o, 2, "call",
                                   objlang[o], NoResult, NoResult))
         /\ objlang' = SwitchEnter(o, lang_code)
         /\ UNCHANGED <<active, ctx>>
    [] tier \in {1, 3} ->
         /\ stack' = Push(t, Frame("url", lang_code, object, o, tier, "call",
                                   active[t], NoResult, NoResult))
         /\ active' = OverrideEnter(t, lang_code)
         /\ UNCHANGED <<objlang, ctx>>
    [] OTHER ->
         IF Resolve(c.path).view_name = None
         THEN /\ stack' = Push(t, Frame("url", lang_code, object, o, 4, "ret",
                                        None, NoResult, Raised("Resolver404")))
              /\ UNCHANGED <<objlang, active, ctx>>
         ELSE /\ stack' = Push(t, Frame("url", lang_code, object, o, 4, "call",
                                        active[t], NoResult, NoResult))
              /\ active' = OverrideEnter(t, lang_code)
              /\ UNCHANGED <<objlang, ctx>>

\* lines 101, 119, 123, 134: the computation inside the with block;
\* `fail` is the exception it raises, None when it raises nothing of its own
UrlCall(t, fail) ==
  /\ stack[t] # <<>>
  /\ Top(t).op = "url" /\ Top(t).pc = "call"
  /\ LET f == Top(t)
         m == Resolve(ctx[t].path)
         out ==
           CASE f.tier = 1 ->
                  IF fail = None THEN Ok(ViewUrl(active[t])) ELSE Raised(fail)
             [] f.tier = 2 ->
                  IF fail # None THEN Raised(fail)
                  ELSE IF objlang[f.obj] \notin Translated[f.obj]
                       THEN Raised("TranslationDoesNotExist")
                       ELSE Ok(AbsUrl(f.obj, objlang[f.obj], active[t]))
             [] f.tier = 3 ->
                  IF fail = None THEN Ok(AbsUrl(f.obj, None, active[t])) ELSE Raised(fail)
             [] OTHER ->
                  IF fail = None
                  THEN Ok(Reverse(m.view_name, m.args, m.kwargs, active[t]))
                  ELSE Raised(fail)
     IN /\ IF f.tier = 4 THEN fail \in {None, "NoReverseMatch"}
                         ELSE fail \in {None, "Error", "TranslationDoesNotExist"}
        /\ stack' = SetTop(t, [f EXCEPT !.pc = "exit", !.out = out])
  /\ UNCHANGED <<objlang, active, ctx>>

\* variant: no `except TranslationDoesNotExist`, the exception propagates
UrlExitNoCatch(t) ==
  /\ stack[t] # <<>>
  /\ Top(t).op = "url" /\ Top(t).pc = "exit"
  /\ LET f == Top(t)
     IN /\ stack' = SetTop(t, [f EXCEPT !.pc = "ret", !.res = f.out])
        /\ IF f.tier = 2
           THEN objlang' = SwitchExit(f.obj, f.old) /\ UNCHANGED active
           ELSE active' = OverrideExit(t, f.old) /\ UNCHANGED objlang
  /\ UNCHANGED ctx

\* variant: the active language is activated and reset without a with
\* block, so an exception skips the reset
UrlExitLeakOnError(t) ==
  /\ stack[t] # <<>>
  /\ Top(t).op = "url" /\ Top(t).pc = "exit"
  /\ LET f == Top(t)
         res == IF f.tier \in 1..3 /\ f.out.status = "raised"
                   /\ f.out.exc = "TranslationDoesNotExist"
                THEN Ok(EmptyString) ELSE f.out
     IN /\ stack' = SetTop(t, [f EXCEPT !.pc = "ret", !.res = res])
        /\ IF f.tier = 2
           THEN objlang' = SwitchExit(f.obj, f.old) /\ UNCHANGED active
           ELSE /\ active' = IF f.out.status = "ok" THEN OverrideExit(t, f.old) ELSE active
                /\ UNCHANGED objlang
  /\ UNCHANGED ctx

\* variant: the try block spans the whole function and catches every
\* exception, the route fallback included
UrlExitCatchAll(t) ==
  /\ stack[t] # <<>>
  /\ Top(t).op = "url" /\ Top(t).pc = "exit"
  /\ LET f == Top(t)
         res == IF f.out.status = "raised" THEN Ok(EmptyString) ELSE f.out
     IN /\ stack' = SetTop(t, [f EXCEPT !.pc = "ret", !.res = res])
        /\ IF f.tier = 2
           THEN objlang' = SwitchExit(f.obj, f.old) /\ UNCHANGED active
           ELSE active' = OverrideExit(t, f.old) /\ UNCHANGED objlang
  /\ UNCHANGED ctx

\* the with block exits; lines 124-127 turn TranslationDoesNotExist raised
\* inside the try into ''
UrlExit(t) ==
  /\ stack[t] # <<>>
  /\ Top(t).op = "url" /\ Top(t).pc = "exit"
  /\ LET f == Top(t)
         res == IF f.tier \in 1..3 /\ f.out.status = "raised"
                   /\ f.out.exc = "TranslationDoesNotExist"
                THEN Ok(EmptyString) ELSE f.out
     IN /\ stack' = SetTop(t, [f EXCEPT !.pc = "ret", !.res = res])
        /\ IF f.tier = 2
           THEN objlang' = SwitchExit(f.obj, f.old) /\ UNCHANGED active
           ELSE active' = OverrideExit(t, f.old) /\ UNCHANGED objlang
  /\ UNCHANGED ctx

----------------------------------------------------------------------------
(* Control returns to the caller of a tag *)

\* the tag's frame is left; an exception propagates into the enclosing
\* nodelist.render (line 25), a value is consumed by the enclosing template
Return(t) ==
  /\ stack[t] # <<>>
  /\ Top(t).pc = "ret"
  /\ LET f == Top(t)
         n == Len(stack[t])
         rest == SubSeq(stack[t], 1, n - 1)
     IN stack' = [stack EXCEPT ![t] =
                    IF n > 1 /\ f.res.status = "raised"
                    THEN [rest EXCEPT ![n - 1] = [@ EXCEPT !.pc = "exit", !.out = f.res]]
                    ELSE rest]
  /\ UNCHANGED <<objlang, active, ctx>>

----------------------------------------------------------------------------
(* Where a template may invoke a tag *)

AtTopLevel(t) == stack[t] = <<>>

InBody(t) ==
  /\ stack[t] # <<>>
  /\ Top(t).op = "render" /\ Top(t).pc = "body"
  /\ Len(stack[t]) < MaxDepth

CallRender(t) ==
  /\ AtTopLevel(t) \/ InBody(t)
  /\ \E object \in OrNone(Objs), language \in OrNone(Langs) :
       RenderStart(t, object, language)

CallUrl(t) ==
  /\ AtTopLevel(t) \/ InBody(t)
  /\ \E lang_code \in Langs, object \in OrNone(Objs) :
       UrlStart(t, lang_code, object)

BodyDone(t) == \E fail \in {None, "Error", "TranslationDoesNotExist"} : RenderBody(t, fail)

Compute(t) == \E fail \in OrNone(Exceptions) : UrlCall(t, fail)

----------------------------------------------------------------------------
(* One execution unit rendering one template after another *)

\* the language each translatable object has before any tag runs
InitObjLang == [o \in TranslatableModel |-> IF o = "post" THEN "en" ELSE "fr"]

\* the active language of every execution unit before any tag runs
InitActive == "de"

Init ==
  /\ stack = [t \in Threads |-> <<>>]
  /\ objlang = InitObjLang
  /\ active = [t \in Threads |-> InitActive]
  /\ \E c \in Contexts : ctx = [t \in Threads |-> c]

Next ==
  \E t \in {"t1"} :
    \/ CallRender(t)
    \/ BodyDone(t)
    \/ RenderExit(t)
    \/ CallUrl(t)
    \/ Compute(t)
    \/ UrlExit(t)
    \/ Return(t)

Spec == Init /\ [][Next]_vars

----------------------------------------------------------------------------
(* Two execution units rendering templates that use the same objects; the  *)
(* tags are invoked at top level only, with the object given explicitly    *)

ConcContext == [view |-> None, viewobj |-> None, object |-> None, path |-> "/article/5/"]

InitConc ==
  /\ stack = [t \in Threads |-> <<>>]
  /\ objlang = InitObjLang
  /\ active = [t \in Threads |-> InitActive]
  /\ ctx = [t \in Threads |-> ConcContext]

TopRender(t) ==
  /\ AtTopLevel(t)
  /\ \E object \in OrNone(Objs), language \in OrNone(Langs) :
       RenderStart(t, object, language)

TopUrl(t) ==
  /\ AtTopLevel(t)
  /\ \E lang_code \in Langs, object \in OrNone(Objs) :
       UrlStart(t, lang_code, object)

NextConc ==
  \E t \in Threads :
    \/ TopRender(t)
    \/ BodyDone(t)
    \/ RenderExit(t)
    \/ TopUrl(t)
    \/ Compute(t)
    \/ UrlExit(t)
    \/ Return(t)

SpecConc == InitConc /\ [][NextConc]_vars

----------------------------------------------------------------------------
(* Vocabulary of the properties *)

Main == "t1"

FramesOf(t) == {stack[t][i] : i \in 1..Len(stack[t])}

\* the frame holds a per-object language scope (entered `with switch_language`)
IsScope(f) ==
  \/ f.op = "render" /\ f.obj \in TranslatableModel
  \/ f.op = "url" /\ f.tier = 2

\* the scope of the frame has been entered and not yet left
ScopeOpen(f) == IsScope(f) /\ f.pc \in {"body", "call", "exit"}

\* the frame holds an override of the unit's active language, still in force
OverrideOpen(f) == f.op = "url" /\ f.tier \in {1, 3, 4} /\ f.pc \in {"call", "exit"}

\* the subject by the documented precedence: explicit argument, then
\* context['object'], then the object of a view present in the context
Precedence(arg, c) ==
  IF arg # None THEN arg
  ELSE IF c.object # None THEN c.object
  ELSE IF c.view # None THEN c.viewobj
  ELSE None

\* the language o must have given the scopes open on the stack s, innermost last
RECURSIVE ScopedLang(_, _)
ScopedLang(s, o) ==
  IF s = <<>> THEN InitObjLang[o]
  ELSE LET f == s[Len(s)] IN
       IF ScopeOpen(f) /\ f.obj = o THEN f.lang
       ELSE ScopedLang(SubSeq(s, 1, Len(s) - 1), o)

----------------------------------------------------------------------------
\* C1: when a scoped per-object language switch has ended (objectlanguage
\* block or the translatable branch of get_translated_url, by a value, by a
\* propagating error or by translation-missing), the object's language is
\* the one it had before the call.
C1_LanguageRestored ==
  \A f \in FramesOf(Main) :
    (IsScope(f) /\ f.pc = "ret") => objlang[f.obj] = f.old

\* a block whose nested render raised has ended, and the object is back to
\* its earlier language, which differs from the block's target
C1_Witness ==
  \E f \in FramesOf(Main) :
    /\ f.op = "render" /\ f.pc = "ret"
    /\ f.res = Raised("Error")
    /\ f.old # f.lang
    /\ objlang[f.obj] = f.old

----------------------------------------------------------------------------
\* C2: objectlanguage on an object that is not a TranslatableModel always
\* raises TemplateSyntaxError, before the nested content is rendered and
\* before any object's language is changed.
C2_NonTranslatableRaises ==
  /\ [](\A t \in Threads : \A f \in FramesOf(t) :
          (f.op = "render" /\ f.arg \notin TranslatableModel)
             => f.pc = "ret" /\ f.out = NoResult /\ f.res = Raised("TemplateSyntaxError"))
  /\ [][\A t \in Threads :
          (/\ Len(stack'[t]) = Len(stack[t]) + 1
           /\ stack'[t][Len(stack'[t])].op = "render"
           /\ stack'[t][Len(stack'[t])].arg \notin TranslatableModel)
             => objlang' = objlang /\ active' = active]_vars

\* a block on the non-translatable "page", inside a block on "post", has raised
C2_Witness ==
  /\ Len(stack[Main]) = 2
  /\ Top(Main).op = "render" /\ Top(Main).arg = "page"
  /\ Top(Main).res = Raised("TemplateSyntaxError")
  /\ objlang["post"] = stack[Main][1].lang

----------------------------------------------------------------------------
\* C3: when the view in the context exposes get_view_url, the resolver
\* returns the result of view.get_view_url() computed with the active
\* language overridden to the target, whatever the explicit object,
\* context['object'] and view.object are; no get_absolute_url is called and
\* no object's language is switched.
C3_ViewUrlDominates ==
  /\ [](\A t \in Threads : \A f \in FramesOf(t) :
          (f.op = "url" /\ ctx[t].view \in HasGetViewUrl)
             => /\ f.tier = 1
                /\ ~IsScope(f)
                /\ (f.pc \in {"exit", "ret"} /\ f.out.status = "ok")
                      => f.out = Ok(ViewUrl(f.lang))
                /\ (f.pc = "ret" /\ f.out.status = "ok") => f.res = f.out)
  /\ [][\A t \in Threads :
          (/\ stack'[t] # stack[t]
           /\ stack'[t] # <<>>
           /\ stack'[t][Len(stack'[t])].op = "url"
           /\ ctx[t].view \in HasGetViewUrl)
             => objlang' = objlang]_vars

\* the view URL for "fr" was returned although the explicit argument, the
\* context object and the view's object all have get_absolute_url
C3_Witness ==
  /\ stack[Main] # <<>>
  /\ ctx[Main].view \in HasGetViewUrl
  /\ ctx[Main].object = "post" /\ ctx[Main].viewobj = "page"
  /\ Top(Main).op = "url" /\ Top(Main).arg = "post" /\ Top(Main).pc = "ret"
  /\ Top(Main).res = Ok(ViewUrl("fr"))

----------------------------------------------------------------------------
\* C4: if the subject object is translatable and raises translation-missing
\* for the target language, get_translated_url returns the empty string;
\* the error never reaches the caller.
C4_MissingGivesEmpty ==
  \A f \in FramesOf(Main) :
    (f.op = "url" /\ f.tier = 2 /\ f.pc = "ret")
      => /\ f.res # Raised("TranslationDoesNotExist")
         /\ f.out = Raised("TranslationDoesNotExist") => f.res = Ok(EmptyString)
         /\ (f.lang \notin Translated[f.obj] /\ f.out # Raised("Error"))
               => f.res = Ok(EmptyString)

\* "post" has no German content; asked for "de" the resolver returned ''
C4_Witness ==
  /\ stack[Main] # <<>>
  /\ Top(Main).op = "url" /\ Top(Main).tier = 2 /\ Top(Main).pc = "ret"
  /\ Top(Main).obj = "post" /\ Top(Main).lang = "de"
  /\ Top(Main).out = Raised("TranslationDoesNotExist")
  /\ Top(Main).res = Ok(EmptyString)

----------------------------------------------------------------------------
\* C5 (as stated): if no subject object is resolvable anywhere (no explicit
\* argument, no context['object'], no object exposed by the view), the
\* resolver falls back to the route: the value it returns is
\* reverse(view_name, args, kwargs) of the current request's route match,
\* computed with the target language active.
C5_Original ==
  \A f \in FramesOf(Main) :
    (f.op = "url" /\ Precedence(f.arg, ctx[Main]) = None)
      => /\ f.tier = 4
         /\ (f.pc = "ret" /\ f.res.status = "ok")
               => LET m == Resolve(ctx[Main].path)
                  IN f.res = Ok(Reverse(m.view_name, m.args, m.kwargs, f.lang))

\* C5 (amended): the same, provided the view in the context does not expose
\* get_view_url.
C5_RouteFallback ==
  \A f \in FramesOf(Main) :
    (/\ f.op = "url"
     /\ ctx[Main].view \notin HasGetViewUrl
     /\ Precedence(f.arg, ctx[Main]) = None)
      => /\ f.tier = 4
         /\ (f.pc = "ret" /\ f.res.status = "ok")
               => LET m == Resolve(ctx[Main].path)
                  IN f.res = Ok(Reverse(m.view_name, m.args, m.kwargs, f.lang))

\* a detail view without an object, nothing else in the context: the German
\* reverse of the article route with its argument was returned
C5_Witness ==
  /\ stack[Main] # <<>>
  /\ ctx[Main] = [view |-> "detail", viewobj |-> None, object |-> None,
                  path |-> "/article/5/"]
  /\ Top(Main).op = "url" /\ Top(Main).arg = None /\ Top(Main).pc = "ret"
  /\ Top(Main).res = Ok(Reverse("article-detail", "5", "", "de"))

----------------------------------------------------------------------------
\* C6: get_translated_url leaves the unit's active language unchanged: the
\* override to the target is in force only while get_view_url,
\* get_absolute_url or reverse is computed (tiers 1, 3, 4), and once the
\* resolver has returned or raised the active language is the earlier one.
C6_ActiveLanguageScoped ==
  \A t \in Threads :
    /\ \A i \in 1..(Len(stack[t]) - 1) : ~OverrideOpen(stack[t][i])
    /\ active[t] = IF stack[t] # <<>> /\ OverrideOpen(Top(t))
                   THEN Top(t).lang ELSE InitActive

\* a non-translatable object raised translation-missing under the override
\* to "fr"; the resolver answered '' and the active language is back
C6_Witness ==
  /\ stack[Main] # <<>>
  /\ Top(Main).op = "url" /\ Top(Main).tier = 3 /\ Top(Main).pc = "ret"
  /\ Top(Main).lang = "fr"
  /\ Top(Main).out = Raised("TranslationDoesNotExist")
  /\ Top(Main).res = Ok(EmptyString)
  /\ active[Main] = InitActive

----------------------------------------------------------------------------
\* C7: no lock isolates the scoped switch: while one unit holds a scope on
\* a translatable object, another unit can still enter a scope on the same
\* object (by either tag) with any target, so the units share the object's
\* language state.
C7_NoIsolation ==
  \A t \in Threads : \A o \in TranslatableModel : \A lang \in Langs :
    (AtTopLevel(t) /\ \E u \in Threads \ {t} : \E f \in FramesOf(u) : ScopeOpen(f) /\ f.obj = o)
      => /\ ENABLED RenderStart(t, o, lang)
         /\ ENABLED UrlStart(t, lang, o)

\* the block of one unit on "post" rendered its content in the target of
\* the other unit's get_translated_url, not in its own
C7_Witness ==
  \E t \in Threads : \E u \in Threads \ {t} :
    /\ stack[t] # <<>> /\ stack[u] # <<>>
    /\ Top(t).op = "render" /\ Top(t).obj = "post" /\ Top(t).pc = "exit"
    /\ Top(u).op = "url" /\ Top(u).obj = "post" /\ ScopeOpen(Top(u))
    /\ Top(t).lang # Top(u).lang
    /\ Top(t).out = Ok(<<Top(u).lang>>)

----------------------------------------------------------------------------
\* C8: when the view does not expose get_view_url, the subject object is
\* the explicit argument if it is not None, else context['object'] if it is
\* not None, else the object of the view, consulted only when a view is in
\* the context; a URL computed from an object is computed from that one.
C8_SubjectPrecedence ==
  \A t \in Threads : \A f \in FramesOf(t) :
    (f.op = "url" /\ ctx[t].view \notin HasGetViewUrl)
      => /\ f.obj = Precedence(f.arg, ctx[t])
         /\ (f.pc \in {"exit", "ret"} /\ f.out.status = "ok" /\ f.tier \in {2, 3})
               => f.out.val[2] = Precedence(f.arg, ctx[t])

\* three different candidates: the URL returned is the explicit argument's
C8_Witness ==
  /\ stack[Main] # <<>>
  /\ ctx[Main].view = "detail" /\ ctx[Main].viewobj = "tag" /\ ctx[Main].object = "post"
  /\ Top(Main).op = "url" /\ Top(Main).arg = "page" /\ Top(Main).pc = "ret"
  /\ Top(Main).res = Ok(AbsUrl("page", None, "en"))

----------------------------------------------------------------------------
\* C9: in one unit, properly nested scopes on an object nest correctly:
\* the object's language is the target of the innermost scope still open on
\* it, hence the enclosing target once an inner scope has exited and the
\* original language once the outermost has.
C9_NestedScopes ==
  \A o \in TranslatableModel : objlang[o] = ScopedLang(stack[Main], o)

\* an inner block on "post" (target "de") has exited inside an outer block
\* on "post" (target "fr"): the language is "fr" again, originally "en"
C9_Witness ==
  /\ Len(stack[Main]) = 2
  /\ stack[Main][1].op = "render" /\ stack[Main][1].obj = "post"
  /\ stack[Main][1].lang = "fr" /\ stack[Main][1].pc = "body"
  /\ stack[Main][2].op = "render" /\ stack[Main][2].obj = "post"
  /\ stack[Main][2].lang = "de" /\ stack[Main][2].pc = "ret"
  /\ stack[Main][2].res = Ok(<<"de">>)
  /\ objlang["post"] = "fr"
  /\ InitObjLang["post"] = "en"

----------------------------------------------------------------------------
\* C10: with no get_view_url on the view, a subject object that lacks
\* get_absolute_url (translatable or not) also leads to the route fallback:
\* the result is the re-reversed route, not ''; an error raised while
\* resolving or reversing propagates instead of becoming ''.
C10_FallbackWithSubject ==
  \A f \in FramesOf(Main) :
    /\ (/\ f.op = "url"
        /\ ctx[Main].view \notin HasGetViewUrl
        /\ Precedence(f.arg, ctx[Main]) \in Objs \ HasAbsoluteUrl)
         => /\ f.tier = 4
            /\ f.pc = "ret"
                 => LET m == Resolve(ctx[Main].path) IN
                    f.res = IF m.view_name = None THEN Raised("Resolver404")
                            ELSE IF f.out.status = "raised" THEN f.out
                            ELSE Ok(Reverse(m.view_name, m.args, m.kwargs, f.lang))
    /\ (f.op = "url" /\ f.tier = 4 /\ f.pc = "ret") => f.res # Ok(EmptyString)

\* the subject "tag" is translatable but has no get_absolute_url; reversing
\* the route failed and the error reached the caller
C10_Witness ==
  /\ stack[Main] # <<>>
  /\ ctx[Main].view = None /\ ctx[Main].object = "tag"
  /\ Top(Main).op = "url" /\ Top(Main).arg = None /\ Top(Main).obj = "tag"
  /\ Top(Main).pc = "ret"
  /\ Top(Main).out = Raised("NoReverseMatch")
  /\ Top(Main).res = Raised("NoReverseMatch")

====
